---- MODULE Spec2Model ----
(***************************************************************************)
(* Manim worker (src/manim-worker/app/main.py): an in-memory job registry  *)
(* behind an asyncio lock, a background executor per job that runs the     *)
(* blocking rendering pipeline, and the HTTP handlers that read the        *)
(* registry.                                                               *)
(*                                                                         *)
(* Scheduling.  Everything runs on one asyncio event loop.  A task keeps   *)
(* the loop until it finishes or suspends at an await; `cur` is the task   *)
(* that has the loop.  The only awaits in the code are the acquisitions of *)
(* jobs_lock, and asyncio.Lock.acquire() returns without suspending when   *)
(* the lock is free.  Subprocess calls, tenacity's sleep and file I/O are  *)
(* blocking calls that never give the loop away.  After a handler has      *)
(* returned, the request task may suspend while its response is sent       *)
(* (`sending`): always for a FileResponse, whose file is examined and read *)
(* in worker threads, and for a JSON response when the transport makes     *)
(* send() wait.  Other tasks run and other requests are served meanwhile;  *)
(* at most MaxSending request tasks are suspended at once.                 *)
(*                                                                         *)
(* Environment.  Faults of the blocking calls, the removal of a published  *)
(* video and a suspended send() are events of the environment; a behaviour *)
(* has at most MaxFaults of them.                                          *)
(*                                                                         *)
(* Objects.  A Job is a mutable object; `heap` maps an object reference to *)
(* the object's fields and `jobs` (the registry dict) maps a job id to a   *)
(* reference, so that run_manim mutating `job` in place is visible through *)
(* the registry, as in the code.                                           *)
(***************************************************************************)
EXTENDS Integers, Sequences, FiniteSets, Bags, TLC

\* ---------------------------------------------------------------- bounds
MaxJobs == 2
MaxFaults == 1                       \* environment events injected in one behaviour
MaxSending == 2                      \* request tasks suspended in their send at once
JobIds == 1..MaxJobs                 \* the uuid4().hex tokens that can be drawn

\* ------------------------------------------------------- program constants
StopAfterAttempt == 3                \* stop_after_attempt(3)
MinCodeLen == 1                      \* Field(..., min_length=1, ...)
MaxCodeLen == 50000                  \* Field(..., max_length=50_000)
MaxPackages == 10                    \* Field(default=None, max_length=10)

\* Optional[T]: None or a value.
None == <<>>
Some(x) == <<x>>

\* JobStatus
PENDING == "pending"
RUNNING == "running"
COMPLETED == "completed"
FAILED == "failed"
JobStatus == {PENDING, RUNNING, COMPLETED, FAILED}

\* OUTPUT_DIR: the resolved output root.
OUTPUT_DIR == "outputs"

\* ------------------------------------------------------------- requests
\* A request body.  python_code is modelled by its length.
ManyPackages == [i \in 1..(MaxPackages + 1) |-> "numpy"]
Payload(code, quality, packages) ==
    [python_code |-> code, quality |-> quality, additional_packages |-> packages]
Payloads ==
    {Payload(MinCodeLen, "medium", None),
     Payload(MaxCodeLen, "medium", Some(<<"numpy">>)),
     Payload(MinCodeLen - 1, "medium", None),
     Payload(MaxCodeLen + 1, "medium", None),
     Payload(MinCodeLen, "ultra", None),
     Payload(MinCodeLen, "medium", Some(ManyPackages))}

\* Mutant: the number of additional_packages is not limited.
CreateJobRequestNoPackageLimit(p) ==
    /\ p.python_code >= MinCodeLen
    /\ p.python_code <= MaxCodeLen
    /\ p.quality \in {"low", "medium", "high"}

\* CreateJobRequest: the field constraints pydantic enforces.
CreateJobRequest(p) ==
    /\ p.python_code >= MinCodeLen
    /\ p.python_code <= MaxCodeLen
    /\ p.quality \in {"low", "medium", "high"}
    /\ IF p.additional_packages = None
       THEN TRUE
       ELSE Len(p.additional_packages[1]) <= MaxPackages

\* `x or []` on an Optional[List[str]].
OrEmptyList(opt) == IF opt = None \/ opt[1] = <<>> THEN <<>> ELSE opt[1]

\* Job(id=..., status=..., quality=..., additional_packages=...) with the
\* class defaults of the other fields.
Job(id, status, quality, packages) ==
    [id |-> id, status |-> status, quality |-> quality,
     additional_packages |-> packages,
     stdout_log |-> <<>>, stderr_log |-> <<>>,
     output_path |-> None, error_message |-> None]

\* quality_flag
quality_flag(quality) ==
    CASE quality = "low" -> "-ql"
      [] quality = "medium" -> "-qm"
      [] quality = "high" -> "-qh"

\* ------------------------------------------------------------ the tasks
NoTask == <<>>
Http == <<"http">>
Exec(j) == <<"execute_job", j>>

\* ------------------------------------------------- texts and exceptions
\* Captured text is a sequence of chunks; += on a log is concatenation.
PipStdout == << <<"pip", "stdout">> >>
PipStderr == << <<"pip", "stderr">> >>
ManimStdout == << <<"manim", "stdout">> >>
ManimStderr == << <<"manim", "stderr">> >>

\* An exception: its class, str(exc), and the stderr attribute of a
\* CalledProcessError.
Exception(type, text, stderr) == [type |-> type, text |-> text, stderr |-> stderr]
OSError(what) == Exception("OSError", what, <<>>)
\* The subclasses of OSError that errno 2 and errno 13 are raised as.
FileNotFoundError(what) == Exception("FileNotFoundError", what, <<>>)
PermissionError(what) == Exception("PermissionError", what, <<>>)
CalledProcessError ==
    Exception("CalledProcessError", "Command returned non-zero exit status 1.", PipStderr)
\* What the blocking file and subprocess calls of the pipeline raise.
WriteOpenError ==
    OSError("[Errno 28] No space left on device: '<scratch>/scene.py'")
WriteError == OSError("[Errno 28] No space left on device")
CopyOpenError ==
    PermissionError("[Errno 13] Permission denied: '<OUTPUT_DIR>/<id>.mp4'")
CopyError(src) ==
    OSError(IF src = <<"media", "videos", "a.mp4">>
            THEN "[Errno 28] No space left on device: '<scratch>/media/videos/a.mp4' -> '<OUTPUT_DIR>/<id>.mp4'"
            ELSE IF src = <<"media", "scene.mp4">>
            THEN "[Errno 28] No space left on device: '<scratch>/media/scene.mp4' -> '<OUTPUT_DIR>/<id>.mp4'"
            ELSE "[Errno 28] No space left on device: '<scratch>/media/images/tmp/scene.mp4' -> '<OUTPUT_DIR>/<id>.mp4'")
\* subprocess.run cannot execute sys.executable: no process runs.
RenderStartError ==
    FileNotFoundError("[Errno 2] No such file or directory: '<sys.executable>'")
UnicodeDecodeError ==
    Exception("UnicodeDecodeError",
              "'utf-8' codec can't decode byte 0xff in position 0: invalid start byte",
              <<>>)
\* tenacity.RetryError wraps the last attempt; it is not a CalledProcessError.
\* str() of it names the class of the exception the last attempt raised.
RetryError(last) ==
    Exception("RetryError",
              IF last.type = "CalledProcessError"
              THEN "RetryError[<Future state=finished raised CalledProcessError>]"
              ELSE IF last.type = "UnicodeDecodeError"
              THEN "RetryError[<Future state=finished raised UnicodeDecodeError>]"
              ELSE IF last.type = "FileNotFoundError"
              THEN "RetryError[<Future state=finished raised FileNotFoundError>]"
              ELSE IF last.type = "PermissionError"
              THEN "RetryError[<Future state=finished raised PermissionError>]"
              ELSE "RetryError[<Future state=finished raised OSError>]",
              <<>>)

\* ---------------------------------------------------------------- files
\* Files of a scratch directory, by their path relative to it.
SceneFile == <<"scene.py">>
MediaMp4A == <<"media", "videos", "a.mp4">>
MediaSceneMp4 == <<"media", "scene.mp4">>
MediaDeepMp4 == <<"media", "images", "tmp", "scene.mp4">>
StrayMp4 == <<"scene.mp4">>
\* What a renderer can leave behind, whatever its exit status.
RenderOutputs ==
    {{}, {StrayMp4}, {MediaMp4A}, {MediaSceneMp4, MediaMp4A}, {MediaMp4A, MediaDeepMp4}}


\* media_dir.glob("**/*.mp4") over the files of a scratch directory.
Mp4Names == {"a.mp4", "scene.mp4"}
GlobMp4(files) == {f \in files : Len(f) > 1 /\ f[1] = "media" /\ f[Len(f)] \in Mp4Names}
\* The directory of a file, and "directory d lies above directory e".
Dir(f) == SubSeq(f, 1, Len(f) - 1)
Above(d, e) == Len(d) < Len(e) /\ SubSeq(e, 1, Len(d)) = d
\* The files that can be mp4_files[0].  The glob walks the tree from media/
\* downwards: it yields the matching files of a directory before it descends
\* into its subdirectories, and takes the entries of one directory in the
\* order the file system lists them, which is any order.  So the first file
\* is any match with no match in a directory above its own: it may lie
\* deeper than a match in a sibling directory.
Mp4First(mp4_files) ==
    {f \in mp4_files : \A g \in mp4_files : ~Above(Dir(g), Dir(f))}

\* OUTPUT_DIR / f"{job.id}.mp4"
OutputDest(id) == <<OUTPUT_DIR, <<id, ".mp4">>>>

\* --------------------------------------------------------------- state
VARIABLES
    jobs,        \* the registry dict: job id -> reference to a Job object
    heap,        \* reference -> the fields of the Job object
    jobs_lock,   \* the task holding the asyncio.Lock, or NoTask
    cur,         \* the task that has the event loop, or NoTask
    pc,          \* per job id: where its execute_job task is
    request,     \* per job id: the CreateJobRequest its task was created with
    loc,         \* per job id: the locals of execute_job / run_manim
    tmp_dirs,    \* the scratch directories on disk: job id -> set of files
    outputs,     \* the files under OUTPUT_DIR: path -> what was copied there
    rmtree_errors,  \* the scratch directories shutil.rmtree could not remove
    faults,      \* the number of environment faults so far
    hpc,         \* where the running request handler is
    hreq,        \* the request it serves
    hloc,        \* its locals
    resp,        \* the HTTP response the running request task has in hand, or None
    sending,     \* the request tasks suspended while sending their response (a bag)
    accepted     \* history: the ids returned in 201 responses, in order

vars == <<jobs, heap, jobs_lock, cur, pc, request, loc, tmp_dirs, outputs,
          rmtree_errors, faults, hpc, hreq, hloc, resp, sending, accepted>>

execVars == <<pc, request, loc, tmp_dirs, outputs, rmtree_errors, faults>>
httpVars == <<hpc, hreq, hloc, resp, sending, accepted>>

\* The locals of one execute_job task before it runs.
NoLocals ==
    [job |-> None,             \* job / updated_job: a reference
     exc |-> None,             \* the exception in flight or caught
     attempts |-> 0,           \* installer invocations so far
     pip_last |-> "none",      \* how the last installer attempt ended
     pip_exit |-> None,        \* the exit status of the last installer process
     exited |-> None,          \* the exit status of the renderer process
     returncode |-> None,      \* render_process.returncode
     rendered |-> {},          \* the files the renderer left in the scratch directory
     mp4_files |-> {},         \* the glob's result
     first |-> None]           \* mp4_files[0]

Init ==
    /\ jobs = <<>>
    /\ heap = <<>>
    /\ jobs_lock = NoTask
    /\ cur = NoTask
    /\ pc = [j \in JobIds |-> "none"]
    /\ request = [j \in JobIds |-> None]
    /\ loc = [j \in JobIds |-> NoLocals]
    /\ tmp_dirs = <<>>
    /\ outputs = <<>>
    /\ rmtree_errors = {}
    /\ faults = 0
    /\ hpc = "idle"
    /\ hreq = None
    /\ hloc = None
    /\ resp = None
    /\ sending = EmptyBag
    /\ accepted = <<>>

\* An event of the environment: a file or process call goes wrong (no room,
\* no permission, undecodable output), a published video is removed, the
\* transport makes send() wait.
Fault == faults < MaxFaults /\ faults' = faults + 1
NoFault == faults' = faults

\* dict / object helpers
Put(d, k, v) == [x \in DOMAIN d \cup {k} |-> IF x = k THEN v ELSE d[x]]
Del(d, k) == [x \in DOMAIN d \ {k} |-> d[x]]
Get(d, k) == IF k \in DOMAIN d THEN Some(d[k]) ELSE None

\* await of `async with jobs_lock`: a task reaches it with the loop in hand
\* (p = at); had it found the lock taken it would have suspended (p = wait)
\* and would run again once the lock and the loop are free.
AtLock(self, p, at, wait) ==
    \/ cur = self /\ p = at
    \/ cur = NoTask /\ jobs_lock = NoTask /\ p = wait

\* ------------------------------------------------------ the HTTP handlers
Requests ==
    [op : {"create_job"}, body : Payloads, job_id : {None}]
        \cup [op : {"list_jobs", "health_check"}, body : {None}, job_id : {None}]
        \cup [op : {"get_job", "download_video"}, body : {None},
              job_id : {Some(j) : j \in JobIds}]

Response(code, body) == Some([status_code |-> code, body |-> body])
HTTPException(code, detail) == Response(code, [detail |-> detail])

NoHandlerLocals == [job_id |-> None, job |-> None]

\* Mutant: uuid4 returns a token it has returned before.
FreshIdsReused == {id \in JobIds : id = 1}

\* uuid.uuid4().hex: a token no earlier call returned.  The tokens are named
\* 1, 2, ... in the order they are drawn.
FreshIds == {id \in JobIds : id = Cardinality(DOMAIN heap) + 1}

\* Mutant: a request's task starts while another task has the loop.
StartedPreemptively(wait) == hpc = "idle" \/ (hpc = wait /\ jobs_lock = NoTask)

\* The loop starts the task of a request (the handler is idle), or resumes it
\* where it had suspended waiting for the lock.
Started(wait) ==
    /\ cur = NoTask
    /\ hpc = "idle" \/ (hpc = wait /\ jobs_lock = NoTask)

\* The handler of request req has returned a FileResponse.
IsFileResponse(req, response) ==
    req.op = "download_video" /\ response.status_code = 200

\* The request task has the response out and ends: either straight after the
\* handler returned (hpc = "send"; the server's send() did not suspend), which
\* a FileResponse cannot do, or after it was resumed (hpc = "deliver").
Send ==
    /\ cur = Http /\ hpc \in {"send", "deliver"}
    /\ hpc = "send" => ~IsFileResponse(hreq[1], resp[1])
    /\ resp' = None
    /\ hpc' = "idle"
    /\ hreq' = None
    /\ hloc' = NoHandlerLocals
    /\ cur' = NoTask
    /\ UNCHANGED <<accepted, sending, jobs, heap, jobs_lock>>
    /\ UNCHANGED execVars

\* The request task suspends while it sends its response and gives the loop
\* away: in the worker-thread os.stat of a FileResponse, which has only
\* recorded the path; or, for a JSON response, whose body was rendered when
\* the handler returned, in the server's send() when the transport makes it
\* wait (an event of the environment, counted with the faults).  Every
\* request task suspends on its own.
SendAwait ==
    /\ cur = Http /\ hpc = "send"
    /\ BagCardinality(sending) < MaxSending
    /\ sending' = sending (+) SetToBag({[req |-> hreq[1], resp |-> resp[1],
                                         stage |-> IF IsFileResponse(hreq[1], resp[1])
                                                   THEN "stat" ELSE "send",
                                         content |-> None]})
    /\ resp' = None
    /\ hpc' = "idle"
    /\ hreq' = None
    /\ hloc' = NoHandlerLocals
    /\ cur' = NoTask
    /\ IF IsFileResponse(hreq[1], resp[1]) THEN NoFault ELSE Fault
    /\ UNCHANGED <<accepted, jobs, heap, jobs_lock>>
    /\ UNCHANGED <<pc, request, loc, tmp_dirs, outputs, rmtree_errors>>

\* What the client of a FileResponse has been sent when the task ends: the
\* content of the file it opened, or an empty body when the file could not
\* be opened (the 200 header has gone out already).
FileSent(path, content) ==
    Response(200, [path |-> path, content |-> content,
                   media_type |-> "video/mp4", filename |-> path[Len(path)]])

\* os.stat of a FileResponse fails: RuntimeError, answered 500 with a plain
\* text body.
InternalServerError == Response(500, [text |-> "Internal Server Error"])

\* The suspended request task e ends with response r: it has the loop until
\* Send.
Deliver(e, r) ==
    /\ sending' = sending (-) SetToBag({e})
    /\ cur' = Http
    /\ hpc' = "deliver"
    /\ hreq' = Some(e.req)
    /\ hloc' = NoHandlerLocals
    /\ resp' = r

\* The suspended request task e goes on and suspends again.
Suspend(e, stage, content) ==
    /\ sending' = (sending (-) SetToBag({e}))
                      (+) SetToBag({[e EXCEPT !.stage = stage, !.content = content]})
    /\ UNCHANGED <<cur, hpc, hreq, hloc, resp>>

\* The loop resumes a suspended request task.  A JSON response is out.  A
\* FileResponse stats its file (missing: 500) and sends the 200 header; then
\* it opens the file (missing: the body stays empty); then it reads the open
\* file chunk by chunk, which a removal of the file no longer affects, and
\* closes it.  Each of these calls runs in a worker thread and gives the loop
\* away; the reads of the chunks after the first change nothing here.
Resume(e) ==
    /\ cur = NoTask /\ hpc = "idle"
    /\ BagIn(e, sending)
    /\ CASE e.stage = "send" -> Deliver(e, Some(e.resp))
         [] e.stage = "stat" ->
               IF e.resp.body.path \in DOMAIN outputs
               THEN Suspend(e, "open", None)
               ELSE Deliver(e, InternalServerError)
         [] e.stage = "open" ->
               IF e.resp.body.path \in DOMAIN outputs
               THEN Suspend(e, "read", Some(outputs[e.resp.body.path]))
               ELSE Deliver(e, FileSent(e.resp.body.path, None))
         [] e.stage = "read" ->
               Deliver(e, FileSent(e.resp.body.path, e.content))
    /\ UNCHANGED <<accepted, jobs, heap, jobs_lock>>
    /\ UNCHANGED execVars

\* FastAPI validates the body against CreateJobRequest before create_job is
\* called; a body that fails is answered 422 and the handler does not run.
ValidationError(r) ==
    /\ cur = NoTask /\ hpc = "idle"
    /\ r.op = "create_job"
    /\ ~CreateJobRequest(r.body)
    /\ cur' = Http
    /\ hreq' = Some(r)
    /\ hloc' = NoHandlerLocals
    /\ resp' = HTTPException(422, "Unprocessable Entity")
    /\ hpc' = "send"
    /\ UNCHANGED <<accepted, sending, jobs, heap, jobs_lock>>
    /\ UNCHANGED execVars

\* Mutant: the record is created already running.
NewJobRunning(id, payload) ==
    Job(id, RUNNING, payload.quality, OrEmptyList(payload.additional_packages))

\* create_job, lines 187-194
NewJob(id, payload) ==
    Job(id, PENDING, payload.quality, OrEmptyList(payload.additional_packages))

CreateBuild(r) ==
    /\ cur = NoTask /\ hpc = "idle"
    /\ r.op = "create_job"
    /\ CreateJobRequest(r.body)
    /\ \E id \in FreshIds :
          /\ heap' = Put(heap, id, NewJob(id, r.body))
          /\ hloc' = [job_id |-> Some(id), job |-> Some(id)]
    /\ cur' = Http
    /\ hreq' = Some(r)
    /\ hpc' = "create_lock"
    /\ UNCHANGED <<accepted, sending, jobs, jobs_lock, resp>>
    /\ UNCHANGED execVars

\* line 195
CreateLock ==
    /\ AtLock(Http, hpc, "create_lock", "create_wait")
    /\ IF jobs_lock = NoTask
       THEN /\ jobs_lock' = Http /\ cur' = Http /\ hpc' = "create_insert"
       ELSE /\ jobs_lock' = jobs_lock /\ cur' = NoTask /\ hpc' = "create_wait"
    /\ UNCHANGED <<accepted, sending, jobs, heap, hreq, hloc, resp>>
    /\ UNCHANGED execVars

\* line 196, and the release on leaving the block
CreateInsert ==
    /\ cur = Http /\ hpc = "create_insert"
    /\ jobs' = Put(jobs, hloc.job_id[1], hloc.job[1])
    /\ jobs_lock' = NoTask
    /\ hpc' = "create_task"
    /\ UNCHANGED <<accepted, sending, heap, cur, hreq, hloc, resp>>
    /\ UNCHANGED execVars

\* line 198: asyncio.create_task(execute_job(job_id, payload))
CreateTask ==
    /\ cur = Http /\ hpc = "create_task"
    /\ pc' = [pc EXCEPT ![hloc.job_id[1]] = "scheduled"]
    /\ request' = [request EXCEPT ![hloc.job_id[1]] = Some(hreq[1].body)]
    /\ hpc' = "create_return"
    /\ UNCHANGED <<accepted, sending, jobs, heap, jobs_lock, cur, hreq, hloc, resp>>
    /\ UNCHANGED <<loc, tmp_dirs, outputs, rmtree_errors, faults>>

\* line 200: the response is serialised from the object the handler
\* returned (FastAPI does so without giving the loop away)
CreateReturn ==
    /\ cur = Http /\ hpc = "create_return"
    /\ resp' = Response(201, heap[hloc.job[1]])
    /\ accepted' = Append(accepted, heap[hloc.job[1]].id)
    /\ hpc' = "send"
    /\ UNCHANGED <<sending, jobs, heap, jobs_lock, cur, hreq, hloc>>
    /\ UNCHANGED execVars

\* list_jobs, line 205
ListLock(r) ==
    /\ r.op = "list_jobs"
    /\ Started("list_wait")
    /\ hpc = "list_wait" => hreq = Some(r)
    /\ IF jobs_lock = NoTask
       THEN /\ jobs_lock' = Http /\ cur' = Http /\ hpc' = "list_return"
       ELSE /\ jobs_lock' = jobs_lock /\ cur' = NoTask /\ hpc' = "list_wait"
    /\ hreq' = Some(r)
    /\ UNCHANGED <<accepted, sending, jobs, heap, hloc, resp>>
    /\ UNCHANGED execVars

\* The body of a List[Job] response: a JSON array, by its items.
JobList(records) == [items |-> records]

\* line 206: list(jobs.values()), the release, and the response
ListReturn ==
    /\ cur = Http /\ hpc = "list_return"
    /\ jobs_lock' = NoTask
    /\ resp' = Response(200, JobList({heap[jobs[k]] : k \in DOMAIN jobs}))
    /\ hpc' = "send"
    /\ UNCHANGED <<accepted, sending, jobs, heap, cur, hreq, hloc>>
    /\ UNCHANGED execVars

\* get_job, line 211
GetLock(r) ==
    /\ r.op = "get_job"
    /\ Started("get_wait")
    /\ hpc = "get_wait" => hreq = Some(r)
    /\ IF jobs_lock = NoTask
       THEN /\ jobs_lock' = Http /\ cur' = Http /\ hpc' = "get_read"
       ELSE /\ jobs_lock' = jobs_lock /\ cur' = NoTask /\ hpc' = "get_wait"
    /\ hreq' = Some(r)
    /\ UNCHANGED <<accepted, sending, jobs, heap, hloc, resp>>
    /\ UNCHANGED execVars

\* lines 213-217
GetJobResponse(job) ==
    IF job = None
    THEN HTTPException(404, "Job not found")
    ELSE Response(200, heap[job[1]])

\* line 212: job = jobs.get(job_id); the release; the response
GetReturn ==
    /\ cur = Http /\ hpc = "get_read"
    /\ jobs_lock' = NoTask
    /\ resp' = GetJobResponse(Get(jobs, hreq[1].job_id[1]))
    /\ hloc' = [job_id |-> hreq[1].job_id, job |-> Get(jobs, hreq[1].job_id[1])]
    /\ hpc' = "send"
    /\ UNCHANGED <<accepted, sending, jobs, heap, cur, hreq>>
    /\ UNCHANGED execVars

\* FileResponse(video_path, media_type="video/mp4", filename=video_path.name)
\* The object records the path; the file is read when the response is sent.
FileResponse(path) ==
    Response(200, [path |-> path,
                   media_type |-> "video/mp4", filename |-> path[Len(path)]])

\* lines 224-235
DownloadVideoResponse(job) ==
    IF job = None
    THEN HTTPException(404, "Job not found")
    ELSE IF heap[job[1]].status # COMPLETED \/ heap[job[1]].output_path = None
    THEN HTTPException(409, "Job not completed")
    ELSE IF heap[job[1]].output_path[1] \notin DOMAIN outputs
    THEN HTTPException(410, "Video expired")
    ELSE FileResponse(heap[job[1]].output_path[1])

\* download_video, line 222.  (A FileResponse always suspends in its send:
\* with MaxSending tasks suspended already, a download that would be answered
\* with one is beyond the bound; every other download is answered.)
VideoLock(r) ==
    /\ r.op = "download_video"
    /\ Started("video_wait")
    /\ IF BagCardinality(sending) < MaxSending
       THEN TRUE
       ELSE ~IsFileResponse(r, DownloadVideoResponse(Get(jobs, r.job_id[1]))[1])
    /\ hpc = "video_wait" => hreq = Some(r)
    /\ IF jobs_lock = NoTask
       THEN /\ jobs_lock' = Http /\ cur' = Http /\ hpc' = "video_read"
       ELSE /\ jobs_lock' = jobs_lock /\ cur' = NoTask /\ hpc' = "video_wait"
    /\ hreq' = Some(r)
    /\ UNCHANGED <<accepted, sending, jobs, heap, hloc, resp>>
    /\ UNCHANGED execVars

\* line 223: job = jobs.get(job_id); the release; the response
VideoReturn ==
    /\ cur = Http /\ hpc = "video_read"
    /\ jobs_lock' = NoTask
    /\ resp' = DownloadVideoResponse(Get(jobs, hreq[1].job_id[1]))
    /\ hloc' = [job_id |-> hreq[1].job_id, job |-> Get(jobs, hreq[1].job_id[1])]
    /\ hpc' = "send"
    /\ UNCHANGED <<accepted, sending, jobs, heap, cur, hreq>>
    /\ UNCHANGED execVars

\* health_check, line 242: len(jobs) is read without the lock
HealthCheck(r) ==
    /\ cur = NoTask /\ hpc = "idle"
    /\ r.op = "health_check"
    /\ resp' = Response(200, [status |-> "healthy",
                              jobs_count |-> Cardinality(DOMAIN jobs),
                              output_dir |-> OUTPUT_DIR])
    /\ cur' = Http
    /\ hreq' = Some(r)
    /\ hpc' = "send"
    /\ UNCHANGED <<accepted, sending, jobs, heap, jobs_lock, hloc>>
    /\ UNCHANGED execVars

\* ------------------------------------------------------------ pip_install
\* One attempt of the tenacity-wrapped pip_install (lines 77-87).  The
\* subprocess either exits zero, exits non-zero (check=True raises
\* CalledProcessError) or cannot be started (FileNotFoundError, an OSError).
\* @retry with no retry=
\* argument retries on every exception, up to stop_after_attempt(3); with no
\* reraise= argument the last failure comes out as a tenacity.RetryError.
\* How one call of subprocess.run in pip_install ends: the installer exits 0,
\* it exits non-zero (check=True), it cannot be started, or what it printed
\* is not valid UTF-8 (text=True), whatever its exit status.
PipOutcomes == {"ok", "nonzero", "oserror", "undecodable"}
\* The exit status of the installer process, if one ran.
PipExits(outcome) ==
    CASE outcome = "ok" -> {Some(0)}
      [] outcome = "nonzero" -> {Some(1)}
      [] outcome = "oserror" -> {None}
      [] outcome = "undecodable" -> {Some(0), Some(1)}

PipRaised(outcome) ==
    IF outcome = "nonzero"
    THEN CalledProcessError
    ELSE IF outcome = "undecodable"
    THEN UnicodeDecodeError
    ELSE FileNotFoundError("[Errno 2] No such file or directory: 'python'")

pip_install(attempt, outcome) ==
    IF outcome = "ok"
    THEN [do |-> "return", exc |-> None]
    ELSE IF attempt >= StopAfterAttempt
    THEN [do |-> "raise", exc |-> Some(RetryError(PipRaised(outcome)))]
    ELSE [do |-> "retry", exc |-> None]

\* line 104: except subprocess.CalledProcessError
CatchesInstallError(exc) == exc.type = "CalledProcessError"

\* ------------------------------------------------ the fields run_manim sets
\* lines 102-103
InstallLogged(job) ==
    [job EXCEPT !.stdout_log = @ \o PipStdout, !.stderr_log = @ \o PipStderr]

\* lines 106-108
InstallFailed(job, exc) ==
    [job EXCEPT !.status = FAILED,
                !.stderr_log = @ \o exc.stderr,
                !.error_message = Some("Failed to install additional packages")]


\* lines 135-136
RenderLogged(job) ==
    [job EXCEPT !.stdout_log = @ \o ManimStdout,
                !.stderr_log = @ \o ManimStderr]

\* lines 141-142
RenderFailed(job) ==
    [job EXCEPT !.status = FAILED, !.error_message = Some("Manim rendering failed")]

\* lines 150-151
NoMp4(job) ==
    [job EXCEPT !.status = FAILED, !.error_message = Some("No MP4 generated")]

\* lines 159-160
Published(job) ==
    [job EXCEPT !.output_path = Some(OutputDest(job.id)), !.status = COMPLETED]

\* Mutant: the except branch does not record the exception's text.
UnexpectedNoMessage(job, exc) == [job EXCEPT !.status = FAILED]

\* lines 175-177
Unexpected(job, exc) ==
    [job EXCEPT !.status = FAILED, !.error_message = Some(exc.text)]

\* ------------------------------------------------------------ execute_job
Goto(j, label) == pc' = [pc EXCEPT ![j] = label]
Raise(j, exc) == loc' = [loc EXCEPT ![j].exc = Some(exc)]
JobOf(j) == loc[j].job[1]

\* The loop starts the task; line 166: tempfile.mkdtemp.  A fault here is
\* outside the try block: it ends the task.
Mkdtemp(j) ==
    /\ cur = NoTask /\ pc[j] = "scheduled"
    /\ \E ok \in BOOLEAN :
          IF ok
          THEN /\ tmp_dirs' = Put(tmp_dirs, j, {})
               /\ Goto(j, "lock_running")
               /\ cur' = Exec(j)
               /\ loc' = loc
               /\ NoFault
          ELSE /\ tmp_dirs' = tmp_dirs
               /\ Goto(j, "crashed")
               /\ cur' = NoTask
               /\ loc' = loc
               /\ Fault
    /\ UNCHANGED <<jobs, heap, jobs_lock, request, outputs, rmtree_errors>>
    /\ UNCHANGED httpVars

\* line 168
LockRunning(j) ==
    /\ AtLock(Exec(j), pc[j], "lock_running", "wait_running")
    /\ IF jobs_lock = NoTask
       THEN /\ jobs_lock' = Exec(j) /\ cur' = Exec(j) /\ Goto(j, "set_running")
       ELSE /\ jobs_lock' = jobs_lock /\ cur' = NoTask /\ Goto(j, "wait_running")
    /\ UNCHANGED <<jobs, heap, request, loc, tmp_dirs, outputs, rmtree_errors, faults>>
    /\ UNCHANGED httpVars

\* Mutant: the lock is not released after the running transition.
SetRunningKeepsLock(j) ==
    /\ cur = Exec(j) /\ pc[j] = "set_running"
    /\ loc' = [loc EXCEPT ![j].job = Some(jobs[j])]
    /\ heap' = [heap EXCEPT ![jobs[j]].status = RUNNING]
    /\ Goto(j, "write_script")
    /\ UNCHANGED <<jobs, jobs_lock, cur, request, tmp_dirs, outputs, rmtree_errors, faults>>
    /\ UNCHANGED httpVars

\* lines 169-170, and the release on leaving the block
SetRunning(j) ==
    /\ cur = Exec(j) /\ pc[j] = "set_running"
    /\ loc' = [loc EXCEPT ![j].job = Some(jobs[j])]
    /\ heap' = [heap EXCEPT ![jobs[j]].status = RUNNING]
    /\ jobs_lock' = NoTask
    /\ Goto(j, "write_script")
    /\ UNCHANGED <<jobs, cur, request, tmp_dirs, outputs, rmtree_errors, faults>>
    /\ UNCHANGED httpVars

\* run_manim, lines 91-99: write_text creates scene.py and writes it.  It
\* succeeds, or it fails creating the file, or it fails writing after it has
\* created the file (which then stays in the scratch directory).
WriteScript(j) ==
    /\ cur = Exec(j) /\ pc[j] = "write_script"
    /\ \E outcome \in {"ok", "not_created", "created"} :
          IF outcome = "ok"
          THEN /\ tmp_dirs' = [tmp_dirs EXCEPT ![j] = @ \cup {SceneFile}]
               /\ IF OrEmptyList(request[j][1].additional_packages) # <<>>
                  THEN Goto(j, "pip_install")
                  ELSE Goto(j, "render")
               /\ loc' = loc
               /\ NoFault
          ELSE IF outcome = "not_created"
          THEN /\ tmp_dirs' = tmp_dirs
               /\ Goto(j, "except")
               /\ Raise(j, WriteOpenError)
               /\ Fault
          ELSE /\ tmp_dirs' = [tmp_dirs EXCEPT ![j] = @ \cup {SceneFile}]
               /\ Goto(j, "except")
               /\ Raise(j, WriteError)
               /\ Fault
    /\ UNCHANGED <<jobs, heap, jobs_lock, cur, request, outputs, rmtree_errors>>
    /\ UNCHANGED httpVars

\* Mutant: the pipeline goes on to the renderer after the installer gave up.
PipInstallFailureIgnored(j) ==
    /\ cur = Exec(j) /\ pc[j] = "pip_install"
    /\ \E outcome \in PipOutcomes : \E exit \in PipExits(outcome) :
          LET attempt == loc[j].attempts + 1
              r == pip_install(attempt, outcome)
              l == [loc[j] EXCEPT !.attempts = attempt, !.pip_last = outcome,
                                  !.pip_exit = exit]
          IN  IF r.do = "return"
              THEN /\ heap' = [heap EXCEPT ![JobOf(j)] = InstallLogged(@)]
                   /\ loc' = [loc EXCEPT ![j] = l]
                   /\ Goto(j, "render")
              ELSE IF r.do = "retry"
              THEN /\ heap' = heap
                   /\ loc' = [loc EXCEPT ![j] = l]
                   /\ pc' = pc
              ELSE /\ heap' = heap
                   /\ loc' = [loc EXCEPT ![j] = l]
                   /\ Goto(j, "render")
    /\ UNCHANGED <<jobs, jobs_lock, cur, request, tmp_dirs, outputs, rmtree_errors, faults>>
    /\ UNCHANGED httpVars

\* lines 100-109: one installer attempt and what follows it
PipInstall(j) ==
    /\ cur = Exec(j) /\ pc[j] = "pip_install"
    /\ \E outcome \in PipOutcomes : \E exit \in PipExits(outcome) :
          LET attempt == loc[j].attempts + 1
              r == pip_install(attempt, outcome)
              l == [loc[j] EXCEPT !.attempts = attempt, !.pip_last = outcome,
                                  !.pip_exit = exit]
          IN  IF r.do = "return"
              THEN /\ heap' = [heap EXCEPT ![JobOf(j)] = InstallLogged(@)]
                   /\ loc' = [loc EXCEPT ![j] = l]
                   /\ Goto(j, "render")
              ELSE IF r.do = "retry"
              THEN /\ heap' = heap
                   /\ loc' = [loc EXCEPT ![j] = l]
                   /\ pc' = pc
              ELSE IF CatchesInstallError(r.exc[1])
              THEN /\ heap' = [heap EXCEPT ![JobOf(j)] = InstallFailed(@, r.exc[1])]
                   /\ loc' = [loc EXCEPT ![j] = l]
                   /\ Goto(j, "finally")
              ELSE /\ heap' = heap
                   /\ loc' = [loc EXCEPT ![j] = [l EXCEPT !.exc = r.exc]]
                   /\ Goto(j, "except")
    /\ UNCHANGED <<jobs, jobs_lock, cur, request, tmp_dirs, outputs, rmtree_errors, faults>>
    /\ UNCHANGED httpVars

\* What the call of the renderer can do: the process cannot be started; or
\* it runs, leaves some files behind and exits zero or non-zero, and what it
\* printed is valid UTF-8 or not.
RenderResults ==
    [started : {FALSE}, returncode : {1}, files : {{}}, utf8 : {TRUE}]
        \cup [started : {TRUE}, returncode : {0, 1}, files : RenderOutputs,
              utf8 : BOOLEAN]

\* lines 111-136: subprocess.run of the renderer, and the two log appends.
\* With text=True the captured output is decoded inside subprocess.run, which
\* raises UnicodeDecodeError on output that is not valid UTF-8: render_process
\* is then never bound and nothing is appended; so it is when the process
\* cannot be started (FileNotFoundError, an OSError).
Render(j) ==
    /\ cur = Exec(j) /\ pc[j] = "render"
    /\ \E r \in RenderResults :
          /\ tmp_dirs' = [tmp_dirs EXCEPT ![j] = @ \cup r.files]
          /\ IF ~r.started
             THEN /\ heap' = heap
                  /\ Raise(j, RenderStartError)
                  /\ Goto(j, "except")
                  /\ Fault
             ELSE IF r.utf8
             THEN /\ heap' = [heap EXCEPT ![JobOf(j)] = RenderLogged(@)]
                  /\ loc' = [loc EXCEPT ![j].exited = Some(r.returncode),
                                        ![j].returncode = Some(r.returncode),
                                        ![j].rendered = r.files]
                  /\ Goto(j, "check_returncode")
                  /\ NoFault
             ELSE /\ heap' = heap
                  /\ loc' = [loc EXCEPT ![j].exited = Some(r.returncode),
                                        ![j].rendered = r.files,
                                        ![j].exc = Some(UnicodeDecodeError)]
                  /\ Goto(j, "except")
                  /\ Fault
    /\ UNCHANGED <<jobs, jobs_lock, cur, request, outputs, rmtree_errors>>
    /\ UNCHANGED httpVars

\* lines 138-143
CheckReturncode(j) ==
    /\ cur = Exec(j) /\ pc[j] = "check_returncode"
    /\ IF loc[j].returncode[1] # 0
       THEN /\ heap' = [heap EXCEPT ![JobOf(j)] = RenderFailed(@)]
            /\ Goto(j, "finally")
       ELSE /\ heap' = heap
            /\ Goto(j, "discover")
    /\ UNCHANGED <<jobs, jobs_lock, cur, request, loc, tmp_dirs, outputs, rmtree_errors, faults>>
    /\ UNCHANGED httpVars

\* lines 145-154: the glob; mp4_files[0] is the file the directory walk
\* yields first
Discover(j) ==
    /\ cur = Exec(j) /\ pc[j] = "discover"
    /\ LET mp4_files == GlobMp4(tmp_dirs[j])
       IN  IF mp4_files = {}
           THEN /\ heap' = [heap EXCEPT ![JobOf(j)] = NoMp4(@)]
                /\ loc' = [loc EXCEPT ![j].mp4_files = mp4_files]
                /\ Goto(j, "finally")
           ELSE /\ heap' = heap
                /\ \E f \in Mp4First(mp4_files) :
                      loc' = [loc EXCEPT ![j].mp4_files = mp4_files,
                                         ![j].first = Some(f)]
                /\ Goto(j, "copy")
    /\ UNCHANGED <<jobs, jobs_lock, cur, request, tmp_dirs, outputs, rmtree_errors, faults>>
    /\ UNCHANGED httpVars

\* Mutant: the job is marked completed before the copy is attempted.
CopyAfterCompleted(j) ==
    /\ cur = Exec(j) /\ pc[j] = "copy"
    /\ \E outcome \in {"ok", "not_created", "truncated"} :
          IF outcome = "ok"
          THEN /\ outputs' = Put(outputs, OutputDest(heap[JobOf(j)].id),
                                 <<j, loc[j].first[1]>>)
               /\ loc' = loc
               /\ Goto(j, "complete")
               /\ NoFault
          ELSE IF outcome = "not_created"
          THEN /\ outputs' = outputs
               /\ Raise(j, CopyOpenError)
               /\ Goto(j, "except")
               /\ Fault
          ELSE /\ outputs' = Put(outputs, OutputDest(heap[JobOf(j)].id),
                                 <<j, loc[j].first[1], "truncated">>)
               /\ Raise(j, CopyError(loc[j].first[1]))
               /\ Goto(j, "except")
               /\ Fault
    /\ heap' = [heap EXCEPT ![JobOf(j)].status = COMPLETED]
    /\ UNCHANGED <<jobs, jobs_lock, cur, request, tmp_dirs, rmtree_errors>>
    /\ UNCHANGED httpVars

\* lines 156-158: shutil.copy of mp4_files[0] into OUTPUT_DIR.  It succeeds,
\* or it fails creating the destination, or it fails after it has created the
\* destination, which then stays, truncated, under the output root.
Copy(j) ==
    /\ cur = Exec(j) /\ pc[j] = "copy"
    /\ \E outcome \in {"ok", "not_created", "truncated"} :
          IF outcome = "ok"
          THEN /\ outputs' = Put(outputs, OutputDest(heap[JobOf(j)].id),
                                 <<j, loc[j].first[1]>>)
               /\ loc' = loc
               /\ Goto(j, "complete")
               /\ NoFault
          ELSE IF outcome = "not_created"
          THEN /\ outputs' = outputs
               /\ Raise(j, CopyOpenError)
               /\ Goto(j, "except")
               /\ Fault
          ELSE /\ outputs' = Put(outputs, OutputDest(heap[JobOf(j)].id),
                                 <<j, loc[j].first[1], "truncated">>)
               /\ Raise(j, CopyError(loc[j].first[1]))
               /\ Goto(j, "except")
               /\ Fault
    /\ UNCHANGED <<jobs, heap, jobs_lock, cur, request, tmp_dirs, rmtree_errors>>
    /\ UNCHANGED httpVars

\* lines 159-162
Complete(j) ==
    /\ cur = Exec(j) /\ pc[j] = "complete"
    /\ heap' = [heap EXCEPT ![JobOf(j)] = Published(@)]
    /\ Goto(j, "finally")
    /\ UNCHANGED <<jobs, jobs_lock, cur, request, loc, tmp_dirs, outputs, rmtree_errors, faults>>
    /\ UNCHANGED httpVars

\* lines 173-177: except Exception
Except(j) ==
    /\ cur = Exec(j) /\ pc[j] = "except"
    /\ heap' = [heap EXCEPT ![JobOf(j)] = Unexpected(@, loc[j].exc[1])]
    /\ Goto(j, "finally")
    /\ UNCHANGED <<jobs, jobs_lock, cur, request, loc, tmp_dirs, outputs, rmtree_errors, faults>>
    /\ UNCHANGED httpVars

\* Mutant: the cleanup runs only when no exception was caught.
FinallyOnlyOnSuccess(j) ==
    /\ cur = Exec(j) /\ pc[j] = "finally"
    /\ \E rest \in {None} \cup {Some(fs) : fs \in SUBSET tmp_dirs[j]} :
          IF loc[j].exc # None
          THEN /\ tmp_dirs' = tmp_dirs
               /\ rmtree_errors' = rmtree_errors
               /\ NoFault
          ELSE IF rest = None
          THEN /\ tmp_dirs' = Del(tmp_dirs, j)
               /\ rmtree_errors' = rmtree_errors
               /\ NoFault
          ELSE /\ tmp_dirs' = [tmp_dirs EXCEPT ![j] = rest[1]]
               /\ rmtree_errors' = rmtree_errors \cup {j}
               /\ Fault
    /\ Goto(j, "lock_terminal")
    /\ UNCHANGED <<jobs, heap, jobs_lock, cur, request, loc, outputs>>
    /\ UNCHANGED httpVars

\* lines 178-179: shutil.rmtree(tmp_dir, ignore_errors=True) removes the
\* directory; or it meets errors, ignores them and removes what it can, which
\* leaves the directory with some of its files (rest)
Finally(j) ==
    /\ cur = Exec(j) /\ pc[j] = "finally"
    /\ \E rest \in {None} \cup {Some(fs) : fs \in SUBSET tmp_dirs[j]} :
          IF rest = None
          THEN /\ tmp_dirs' = Del(tmp_dirs, j)
               /\ rmtree_errors' = rmtree_errors
               /\ NoFault
          ELSE /\ tmp_dirs' = [tmp_dirs EXCEPT ![j] = rest[1]]
               /\ rmtree_errors' = rmtree_errors \cup {j}
               /\ Fault
    /\ Goto(j, "lock_terminal")
    /\ UNCHANGED <<jobs, heap, jobs_lock, cur, request, loc, outputs>>
    /\ UNCHANGED httpVars

\* Mutant: the acquisition gives the loop away once even though the lock is
\* free.
LockTerminalYields(j) ==
    /\ AtLock(Exec(j), pc[j], "lock_terminal", "wait_terminal")
    /\ IF pc[j] = "wait_terminal"
       THEN /\ jobs_lock' = Exec(j) /\ cur' = Exec(j) /\ Goto(j, "replace")
       ELSE /\ jobs_lock' = jobs_lock /\ cur' = NoTask /\ Goto(j, "wait_terminal")
    /\ UNCHANGED <<jobs, heap, request, loc, tmp_dirs, outputs, rmtree_errors, faults>>
    /\ UNCHANGED httpVars

\* line 181
LockTerminal(j) ==
    /\ AtLock(Exec(j), pc[j], "lock_terminal", "wait_terminal")
    /\ IF jobs_lock = NoTask
       THEN /\ jobs_lock' = Exec(j) /\ cur' = Exec(j) /\ Goto(j, "replace")
       ELSE /\ jobs_lock' = jobs_lock /\ cur' = NoTask /\ Goto(j, "wait_terminal")
    /\ UNCHANGED <<jobs, heap, request, loc, tmp_dirs, outputs, rmtree_errors, faults>>
    /\ UNCHANGED httpVars

\* line 182: jobs[job_id] = updated_job, the release, and the task ends (its
\* locals go with it)
Replace(j) ==
    /\ cur = Exec(j) /\ pc[j] = "replace"
    /\ jobs' = Put(jobs, j, JobOf(j))
    /\ jobs_lock' = NoTask
    /\ cur' = NoTask
    /\ loc' = [loc EXCEPT ![j] = NoLocals]
    /\ Goto(j, "done")
    /\ UNCHANGED <<heap, request, tmp_dirs, outputs, rmtree_errors, faults>>
    /\ UNCHANGED httpVars

\* ---------------------------------------------------------- environment
\* Somebody outside the service deletes the published video of a completed
\* job ("Video expired").
VideoRemoved(j) ==
    /\ j \in DOMAIN heap
    /\ heap[j].status = COMPLETED
    /\ heap[j].output_path # None
    /\ heap[j].output_path[1] \in DOMAIN outputs
    /\ outputs' = Del(outputs, heap[j].output_path[1])
    /\ Fault
    /\ UNCHANGED <<jobs, heap, jobs_lock, cur, pc, request, loc, tmp_dirs, rmtree_errors>>
    /\ UNCHANGED httpVars

\* ------------------------------------------------------- specification
ExecuteJob(j) ==
    \/ Mkdtemp(j)
    \/ LockRunning(j)
    \/ SetRunning(j)
    \/ WriteScript(j)
    \/ PipInstall(j)
    \/ Render(j)
    \/ CheckReturncode(j)
    \/ Discover(j)
    \/ Copy(j)
    \/ Complete(j)
    \/ Except(j)
    \/ Finally(j)
    \/ LockTerminal(j)
    \/ Replace(j)

Handler ==
    \/ CreateLock \/ CreateInsert \/ CreateTask \/ CreateReturn
    \/ ListReturn
    \/ GetReturn
    \/ VideoReturn
    \/ Send
    \/ SendAwait
    \/ \E e \in BagToSet(sending) : Resume(e)

Receive(r) ==
    \/ ValidationError(r)
    \/ CreateBuild(r)
    \/ ListLock(r)
    \/ GetLock(r)
    \/ VideoLock(r)
    \/ HealthCheck(r)

Next ==
    \/ \E r \in Requests : Receive(r)
    \/ Handler
    \/ \E j \in JobIds : ExecuteJob(j)
    \/ \E j \in JobIds : VideoRemoved(j)

Spec == Init /\ [][Next]_vars

\* The event loop runs every task it was given and every task that has the
\* loop goes on: each step of execute_job is taken if it stays possible, and
\* a scheduled task is started even though handlers keep taking the loop.
FairSpec ==
    /\ Spec
    /\ \A j \in JobIds : SF_vars(Mkdtemp(j)) /\ WF_vars(ExecuteJob(j))
    /\ WF_vars(Handler)

\* ================================================================ claims
\* The record the registry holds for job id j.
Rec(j) == heap[jobs[j]]
Registered == DOMAIN jobs
IsTerminal(status) == status \in {COMPLETED, FAILED}
\* The executor of j is about to write, or is writing, its terminal record
\* (lines 181-182); its locals are still alive.
AtTerminalWrite(j) == pc[j] \in {"lock_terminal", "replace"}
HasPackages(j) == request[j] # None /\ OrEmptyList(request[j][1].additional_packages) # <<>>
EndsWith(log, text) ==
    /\ Len(log) >= Len(text)
    /\ SubSeq(log, Len(log) - Len(text) + 1, Len(log)) = text
Serving(op) == hreq # None /\ hreq[1].op = op

\* C1: a job's status in the registry only ever changes pending -> running,
\* running -> completed or running -> failed; a completed or failed job
\* never changes status again, and no job leaves the registry.
C1_StatusTransitions ==
    [][\A j \in Registered :
          /\ j \in DOMAIN jobs'
          /\ heap'[jobs'[j]].status # Rec(j).status
                => <<Rec(j).status, heap'[jobs'[j]].status>>
                      \in {<<PENDING, RUNNING>>, <<RUNNING, COMPLETED>>,
                           <<RUNNING, FAILED>>}]_vars

\* C1 witness: one job went pending -> running -> completed and another
\* pending -> running -> failed, and both executions have ended.
C1_Witness ==
    \E j, k \in Registered :
        /\ pc[j] = "done" /\ Rec(j).status = COMPLETED
        /\ pc[k] = "done" /\ Rec(k).status = FAILED

\* C2 (as claimed): when the installer of a job with packages has failed on
\* all 3 attempts, the last one by a non-zero exit, the terminal record is
\* failed with error_message "Failed to install additional packages" and the
\* installer's captured stdout and stderr end the job's logs.
C2_InstallFailureRecord ==
    \A j \in Registered :
        (/\ AtTerminalWrite(j)
         /\ HasPackages(j)
         /\ loc[j].attempts = StopAfterAttempt
         /\ loc[j].pip_last = "nonzero")
            => /\ Rec(j).status = FAILED
               /\ Rec(j).error_message = Some("Failed to install additional packages")
               /\ EndsWith(Rec(j).stdout_log, PipStdout)
               /\ EndsWith(Rec(j).stderr_log, PipStderr)

\* C3 (as claimed): every job in the registry eventually has status
\* completed or failed.
C3_EventuallyTerminal ==
    \A j \in JobIds :
        (j \in Registered) ~> (j \in Registered /\ IsTerminal(Rec(j).status))

\* C4 (as claimed): a background task that has ended, by a crash or
\* otherwise, has left its job completed or failed, and a fault caught on the
\* way has left it failed with the fault's text as error_message.
C4_FaultsEndFailed ==
    \A j \in Registered :
        /\ pc[j] \in {"done", "crashed"} => IsTerminal(Rec(j).status)
        /\ pc[j] = "crashed" => Rec(j).status = FAILED /\ Rec(j).error_message # None
        /\ AtTerminalWrite(j) /\ loc[j].exc # None
              => /\ Rec(j).status = FAILED
                 /\ Rec(j).error_message = Some(loc[j].exc[1].text)

\* C5 (as claimed): download_video decides 404 exactly when the id is not in
\* the registry, 409 exactly when the job is there but is not completed or has
\* no output_path, 410 exactly when it is completed but its file is missing
\* from disk, and a FileResponse for the file at output_path exactly when it
\* is completed and the file exists; what the client is then sent is one of
\* those four answers, a 200 carrying the content of that file; and no step of
\* the request changes the registry.
C5_DownloadVideo ==
    [][/\ (hpc = "video_read" /\ hpc' = "send") =>
             LET id == hreq[1].job_id[1]
                 code == resp'[1].status_code
                 known == id \in Registered
                 ready == known /\ Rec(id).status = COMPLETED
                                /\ Rec(id).output_path # None
                 onDisk == ready /\ Rec(id).output_path[1] \in DOMAIN outputs
             IN  /\ code = 404 <=> ~known
                 /\ code = 409 <=> known /\ ~ready
                 /\ code = 410 <=> ready /\ ~onDisk
                 /\ code = 200 <=> onDisk
                 /\ code = 200 => resp'[1].body.path = Rec(id).output_path[1]
       /\ (hpc' = "deliver" /\ hreq'[1].op = "download_video") =>
             /\ resp'[1].status_code \in {404, 409, 410, 200}
             /\ resp'[1].status_code = 200 =>
                   /\ resp'[1].body.content # None
                   /\ resp'[1].body.content[1][1] = hreq'[1].job_id[1]
       /\ (Serving("download_video") \/ hpc' \in {"video_read", "video_wait"})
             => jobs' = jobs /\ heap' = heap]_vars

\* C6 (as claimed): when the renderer of a job has exited non-zero, the
\* terminal record is failed with error_message "Manim rendering failed", has
\* no output_path, and its stderr_log is the installer's stderr (if the
\* installer ran) followed by the renderer's stderr.
C6_RenderFailureRecord ==
    \A j \in Registered :
        (AtTerminalWrite(j) /\ loc[j].exited # None /\ loc[j].exited[1] # 0)
            => /\ Rec(j).status = FAILED
               /\ Rec(j).error_message = Some("Manim rendering failed")
               /\ Rec(j).output_path = None
               /\ Rec(j).stderr_log =
                     (IF loc[j].pip_last = "ok" THEN PipStderr ELSE <<>>) \o ManimStderr

\* A file is an .mp4 under the media/ subtree of its scratch directory.
UnderMediaMp4(f) == f[1] = "media" /\ Len(f) > 1 /\ f[Len(f)] \in {"a.mp4", "scene.mp4"}

\* C7 (as claimed): when the renderer has exited zero and left no .mp4 under
\* media/, the terminal record is failed with error_message "No MP4 generated"
\* and there is no file for the job under the output root.
C7_NoMp4Record ==
    \A j \in Registered :
        (/\ AtTerminalWrite(j)
         /\ loc[j].exited = Some(0)
         /\ \A f \in loc[j].rendered : ~UnderMediaMp4(f))
            => /\ Rec(j).status = FAILED
               /\ Rec(j).error_message = Some("No MP4 generated")
               /\ <<OUTPUT_DIR, <<j, ".mp4">>>> \notin DOMAIN outputs

\* C8 (as claimed): at the step that makes a job completed its output_path is
\* <output root>/<job id>.mp4 and that file exists; two completed jobs never
\* have the same output_path; and a download issued while the file existed
\* (the handler found the job completed and its file on disk, so the answer
\* is none of 404, 409, 410) is answered 200 with the job's output_path and
\* the content that job's execution copied there.
C8_PublishedFile ==
    [][/\ \A j \in Registered :
             (Rec(j).status # COMPLETED /\ heap'[jobs'[j]].status = COMPLETED)
                => /\ heap'[jobs'[j]].output_path = Some(<<OUTPUT_DIR, <<j, ".mp4">>>>)
                   /\ <<OUTPUT_DIR, <<j, ".mp4">>>> \in DOMAIN outputs'
       /\ \A j, k \in Registered :
             (/\ j # k
              /\ heap'[jobs'[j]].status = COMPLETED
              /\ heap'[jobs'[k]].status = COMPLETED)
                => heap'[jobs'[j]].output_path # heap'[jobs'[k]].output_path
       /\ (hpc' = "deliver" /\ hreq'[1].op = "download_video"
              /\ resp'[1].status_code \notin {404, 409, 410})
             => LET id == hreq'[1].job_id[1]
                    body == resp'[1].body
                IN  /\ resp'[1].status_code = 200
                    /\ body.path = <<OUTPUT_DIR, <<id, ".mp4">>>>
                    /\ body.content # None
                    /\ body.content[1][1] = id
                    /\ UnderMediaMp4(body.content[1][2])
                    /\ Len(body.content[1]) = 2]_vars

\* C9 (as claimed): whenever a job's record is completed or failed, its
\* scratch directory does not exist on disk.
C9_ScratchGoneWhenTerminal ==
    \A j \in Registered : IsTerminal(Rec(j).status) => j \notin DOMAIN tmp_dirs

\* C9 (amended): once the execution of a job has ended with its terminal
\* record written, its scratch directory does not exist on disk, unless
\* shutil.rmtree met an error removing it (which it ignores).
C9_ScratchGoneWhenDone ==
    \A j \in Registered :
        pc[j] = "done" => (j \notin DOMAIN tmp_dirs \/ j \in rmtree_errors)

\* C9 witness: an execution that went through the except branch has ended
\* and its scratch directory is gone.
C9_Witness ==
    \E j \in Registered :
        /\ pc[j] = "done"
        /\ Rec(j).status = FAILED
        /\ Rec(j).error_message
              \notin {None, Some("Manim rendering failed"), Some("No MP4 generated")}
        /\ j \notin DOMAIN tmp_dirs

\* C10: the response to an accepted POST /jobs is produced while the job's
\* execution is still only scheduled, and what the client is sent, at once or
\* after its sending was suspended and the execution ran, carries status
\* pending, no output_path and no error_message.
C10_CreateResponse ==
    (hpc \in {"send", "deliver"} /\ Serving("create_job")
        /\ CreateJobRequest(hreq[1].body))
        => /\ resp[1].status_code = 201
           /\ resp[1].body.status = PENDING
           /\ resp[1].body.output_path = None
           /\ resp[1].body.error_message = None
           /\ hpc = "send" => pc[resp[1].body.id] = "scheduled"

\* C10 witness: the sending of a creation's response was suspended, the
\* execution of the job it created ran to its end meanwhile, and the response
\* is delivered.
C10_Witness ==
    /\ hpc = "deliver" /\ Serving("create_job")
    /\ resp[1].status_code = 201
    /\ pc[resp[1].body.id] = "done"
    /\ IsTerminal(Rec(resp[1].body.id).status)

\* The request h (hreq or hreq') is a POST /jobs whose body breaks one of the
\* limits the interface states.
InvalidCreate(h) ==
    IF h = None THEN FALSE
    ELSE IF h[1].op # "create_job" THEN FALSE
    ELSE \/ h[1].body.python_code = 0
         \/ h[1].body.python_code > 50000
         \/ h[1].body.quality \notin {"low", "medium", "high"}
         \/ IF h[1].body.additional_packages = None
            THEN FALSE
            ELSE Len(h[1].body.additional_packages[1]) > 10

\* C11: a POST /jobs whose body fails validation is answered 422, and from its
\* arrival to its answer nothing changes the registry, a Job object, the
\* scheduled executions or the ids handed out.
C11_RejectedUnchanged ==
    [][/\ (hreq = None /\ InvalidCreate(hreq'))
             => /\ resp' # None
                /\ resp'[1].status_code = 422
       /\ (InvalidCreate(hreq) \/ InvalidCreate(hreq'))
             => /\ jobs' = jobs /\ heap' = heap
                /\ pc' = pc /\ request' = request
                /\ accepted' = accepted]_vars

\* C11 witness: a body with 11 packages has been answered 422 while the
\* registry holds a job.
C11_Witness ==
    /\ hpc = "send" /\ InvalidCreate(hreq)
    /\ hreq[1].body.additional_packages = Some(ManyPackages)
    /\ resp[1].status_code = 422
    /\ Registered # {}

\* C12: every id returned by a creation is in the registry in every state;
\* a GET /jobs returns exactly one record per accepted creation, with exactly
\* those ids; a GET /health reports that number as jobs_count.
C12_RegistryIsAccepted ==
    /\ \A i \in 1..Len(accepted) : accepted[i] \in Registered
    /\ (hpc = "send" /\ Serving("list_jobs"))
          => /\ resp[1].status_code = 200
             /\ Cardinality(resp[1].body.items) = Len(accepted)
             /\ {r.id : r \in resp[1].body.items} = {accepted[i] : i \in 1..Len(accepted)}
    /\ (hpc = "send" /\ Serving("health_check"))
          => resp[1].body.jobs_count = Len(accepted)

\* C12 witness: GET /jobs has been answered with two records after two
\* creations, one of whose executions has ended and one has not started.
C12_Witness ==
    /\ hpc = "send" /\ Serving("list_jobs")
    /\ Len(accepted) = 2
    /\ Cardinality(resp[1].body.items) = 2
    /\ pc[1] = "done" /\ pc[2] = "scheduled"

\* C13 (as claimed): every step that writes the registry dict or a record it
\* holds, and every step in which a handler reads the registry (list, get,
\* download, the size read by the health check), is taken by a task that holds
\* jobs_lock.
C13_LockedAccess ==
    [][/\ (jobs' # jobs \/ \E j \in Registered : heap'[jobs[j]] # heap[jobs[j]])
             => (jobs_lock # NoTask /\ jobs_lock = cur)
       /\ (/\ hpc # "send" /\ hpc' = "send"
           /\ hreq'[1].op \in {"list_jobs", "get_job", "download_video",
                                "health_check"})
             => jobs_lock = Http]_vars

\* The pipeline of j has ended and the cleanup is next: every installer
\* attempt of the job has been made and its scratch directory is still there.
PipelineEnded(j) == pc[j] = "finally"

\* Writing the script of j into its scratch directory raised.
StagingFaulted(j) == loc[j].exc \in {Some(WriteOpenError), Some(WriteError)}

\* C14 (as claimed, for the jobs whose script was staged): for every job with
\* packages whose pipeline has ended the installer was invoked at least once,
\* at most 3 times and exactly 3 times if no attempt succeeded; another
\* attempt is due only after an attempt that failed, never after one whose
\* installer exited 0; for a job without packages the installer was never
\* invoked.
C14_InstallerAttempts ==
    \A j \in Registered :
        /\ loc[j].attempts <= 3
        /\ ~HasPackages(j) => loc[j].attempts = 0
        /\ (pc[j] = "pip_install" /\ loc[j].attempts >= 1)
              => loc[j].pip_last # "ok" /\ loc[j].pip_exit # Some(0)
        /\ (HasPackages(j) /\ PipelineEnded(j) /\ ~StagingFaulted(j))
              => /\ loc[j].attempts >= 1
                 /\ loc[j].pip_last # "ok" => loc[j].attempts = 3

\* C15 (as claimed): an installer attempt that is not the first is made only
\* when the attempt before it ended with a non-zero exit code.
C15_RetryOnlyOnNonZeroExit ==
    [][\A j \in JobIds :
          (loc[j].attempts >= 1 /\ loc'[j].attempts = loc[j].attempts + 1)
              => loc[j].pip_last = "nonzero"]_vars

\* The steps of the pipeline of job j, told by what they do: the script
\* appears in the scratch directory, the installer is invoked once more, the
\* renderer is invoked (line 116 is left), the job's file appears under the
\* output root.
StagingStep(j) ==
    /\ j \in DOMAIN tmp_dirs /\ j \in DOMAIN tmp_dirs'
    /\ SceneFile \notin tmp_dirs[j] /\ SceneFile \in tmp_dirs'[j]
InstallerStep(j) == loc'[j].attempts = loc[j].attempts + 1
RendererStep(j) == pc[j] = "render" /\ pc'[j] # "render"
PublicationStep(j) ==
    /\ <<OUTPUT_DIR, <<j, ".mp4">>>> \notin DOMAIN outputs
    /\ <<OUTPUT_DIR, <<j, ".mp4">>>> \in DOMAIN outputs'
\* No step of the pipeline of j has failed so far.
NoFailureYet(j) == heap[j].status = RUNNING /\ loc[j].exc = None
Staged(j) == j \in DOMAIN tmp_dirs /\ SceneFile \in tmp_dirs[j]

\* C16: the script is staged before any installer or renderer invocation;
\* the installer is invoked only for a job with packages, after the staging
\* and before the renderer; the renderer is invoked at most once, after the
\* staging and, when packages are listed, only after the installer succeeded;
\* a file is written under the output root only after the renderer exited
\* zero and an .mp4 under media/ was discovered; and none of these steps is
\* taken once a step of the job has failed.
C16_PipelineOrder ==
    [][\A j \in JobIds :
          /\ StagingStep(j)
                => /\ NoFailureYet(j)
                   /\ loc[j].attempts = 0 /\ loc[j].exited = None
          /\ InstallerStep(j)
                => /\ NoFailureYet(j)
                   /\ HasPackages(j) /\ Staged(j)
                   /\ loc[j].exited = None
          /\ RendererStep(j)
                => /\ NoFailureYet(j)
                   /\ Staged(j)
                   /\ loc[j].exited = None
                   /\ IF HasPackages(j)
                      THEN loc[j].pip_last = "ok"
                      ELSE loc[j].attempts = 0
          /\ PublicationStep(j)
                => /\ NoFailureYet(j)
                   /\ loc[j].exited = Some(0)
                   /\ loc[j].first # None
                   /\ loc[j].first[1] \in tmp_dirs[j]
                   /\ UnderMediaMp4(loc[j].first[1])]_vars

\* C16 witness: a job with packages has gone through staging, a failed and a
\* successful installer attempt, the renderer, the discovery and the
\* publication of its file.
C16_Witness ==
    \E j \in Registered :
        /\ pc[j] = "complete"
        /\ HasPackages(j)
        /\ loc[j].attempts = 2 /\ loc[j].pip_last = "ok"
        /\ loc[j].exited = Some(0)
        /\ <<OUTPUT_DIR, <<j, ".mp4">>>> \in DOMAIN outputs

\* A handler can be running: no execute_job task has the event loop.
HandlerCanObserve == cur \in {NoTask, Http}
\* error_message is set exactly when failed, output_path exactly when
\* completed.
FieldsMatchStatus(job) ==
    /\ job.error_message # None <=> job.status = FAILED
    /\ job.output_path # None <=> job.status = COMPLETED

\* C17: in every state in which a handler can run, every record of the
\* registry has error_message set iff its status is failed and output_path
\* set iff its status is completed; so has every record a GET /jobs or
\* GET /jobs/{id} response carries, sent at once or after a suspension.
C17_FieldsMatchStatus ==
    /\ HandlerCanObserve => \A j \in Registered : FieldsMatchStatus(Rec(j))
    /\ (hpc \in {"send", "deliver"} /\ Serving("list_jobs"))
          => \A r \in resp[1].body.items : FieldsMatchStatus(r)
    /\ (hpc \in {"send", "deliver"} /\ Serving("get_job")
           /\ resp[1].status_code = 200)
          => FieldsMatchStatus(resp[1].body)

\* C17 witness: GET /jobs has been answered with a completed record and a
\* record failed by an unexpected fault.
C17_Witness ==
    /\ hpc = "send" /\ Serving("list_jobs")
    /\ \E r \in resp[1].body.items : r.status = COMPLETED /\ r.output_path # None
    /\ \E r \in resp[1].body.items :
          /\ r.status = FAILED
          /\ r.error_message = Some("[Errno 28] No space left on device")

\* Job j is between its transition to running (line 170) and the write of
\* its terminal record (line 182).
Executing(j) ==
    pc[j] \in {"write_script", "pip_install", "render", "check_returncode",
               "discover", "copy", "complete", "except", "finally",
               "lock_terminal", "wait_terminal", "replace"}
\* Job j is inside the try block of execute_job: run_manim, the except
\* branch or the cleanup.
InPipeline(j) ==
    pc[j] \in {"write_script", "pip_install", "render", "check_returncode",
               "discover", "copy", "complete", "except", "finally"}

\* C18: at most one job at a time is between its transition to running and
\* the write of its terminal record.
C18_OneJobAtATime ==
    \A j, k \in JobIds : (Executing(j) /\ Executing(k)) => j = k

\* C18 witness: two jobs were created before either ran, and one of them is
\* in its pipeline while the other is still scheduled.
C18_Witness ==
    \E j, k \in Registered :
        /\ pc[j] = "check_returncode"
        /\ pc[k] = "scheduled"

\* C19: while a job is in its pipeline its executor does not hold jobs_lock;
\* the executor holds the lock only for the running transition and for the
\* terminal replace, and it takes the lock only at those two places.
C19_LockNotHeldInPipeline ==
    [][\A j \in JobIds :
          /\ InPipeline(j) => jobs_lock # Exec(j)
          /\ jobs_lock = Exec(j) => pc[j] \in {"set_running", "replace"}
          /\ (jobs_lock # Exec(j) /\ jobs_lock' = Exec(j))
                => \/ pc[j] \in {"lock_running", "wait_running"} /\ pc'[j] = "set_running"
                   \/ pc[j] \in {"lock_terminal", "wait_terminal"} /\ pc'[j] = "replace"]_vars

\* C19 witness: the installer and the renderer of a job have run and nobody
\* holds the lock.
C19_Witness ==
    \E j \in Registered :
        /\ pc[j] = "check_returncode"
        /\ loc[j].attempts >= 1
        /\ jobs_lock = NoTask

\* C20: an execution has the event loop from its running transition to its
\* terminal replace; in every state in which a handler can run no record of
\* the registry has status running, and no GET /jobs, GET /jobs/{id} or
\* download response reports a running job.
C20_RunningNeverObserved ==
    /\ \A j \in JobIds : Executing(j) => cur = Exec(j)
    /\ HandlerCanObserve => \A j \in Registered : Rec(j).status # RUNNING
    /\ (hpc \in {"send", "deliver"} /\ Serving("list_jobs"))
          => \A r \in resp[1].body.items : r.status # RUNNING
    /\ (hpc \in {"send", "deliver"} /\ Serving("get_job")
           /\ resp[1].status_code = 200)
          => resp[1].body.status # RUNNING
    /\ (hpc = "send" /\ Serving("download_video") /\ resp[1].status_code = 409)
          => Rec(hreq[1].job_id[1]).status \in {PENDING, FAILED}

\* C20 witness: GET /jobs/{id} has been answered with a pending record while
\* the execution of another job has ended.
C20_Witness ==
    /\ hpc = "send" /\ Serving("get_job")
    /\ resp[1].status_code = 200
    /\ resp[1].body.status = PENDING
    /\ \E k \in Registered : pc[k] = "done"

====
